---- MODULE Spec2Model ----
(***************************************************************************)
(* uTimerLib: a single-slot timeout / interval scheduler driven by the     *)
(* overflow (or compare) interrupt of one hardware timer.                  *)
(*                                                                         *)
(* The model covers four builds of the library:                            *)
(*   "CORE"  - src/uTimerLib.cpp compiled for ARDUINO_ARCH_AVR             *)
(*   "AVR"   - src/hardware/uTimerLib.AVR.cpp (Timer2)                     *)
(*   "SAM"   - src/hardware/uTimerLib.SAM.cpp (TC1 channel 0)              *)
(*   "STM32" - src/hardware/uTimerLib.STM32.cpp (Timer3)                   *)
(* The normal context (the sketch) calls the public operations statement   *)
(* by statement; the timer interrupt preempts it between any two           *)
(* statements while delivery is enabled, and runs the handler.  The user   *)
(* callback runs inside the handler and may itself call the public         *)
(* operations.                                                             *)
(***************************************************************************)
EXTENDS Integers, Sequences, FiniteSets, TLC

\* ---------------------------------------------------------------- modes
UTIMERLIB_TYPE_OFF == 0
UTIMERLIB_TYPE_TIMEOUT == 1
UTIMERLIB_TYPE_INTERVAL == 2

Modes == {UTIMERLIB_TYPE_OFF, UTIMERLIB_TYPE_TIMEOUT, UTIMERLIB_TYPE_INTERVAL}

\* ---------------------------------------------------------------- bounds
\* Number of public operations the sketch (normal context and callbacks
\* together) still calls; when it is used up, only tick events remain.
MaxCalls == 2
\* The count of clearTimer() calls in a row saturates here; a clearTimer()
\* that directly follows a clearTimer() is not counted in MaxCalls.
MaxClears == 2
\* The count of callback invocations since the last public operation
\* saturates here.
MaxFired == 2
\* Largest delays of the arithmetic specification: two full Timer2 periods
\* and more in microseconds; past the 32-bit wrap of s * 1000000 in seconds.
MaxUs == 33000
MaxS == 4300

\* ---------------------------------------------------------------- inputs
Variants == {"CORE", "AVR", "SAM", "STM32"}
\* "AVR32U4" is hardware/uTimerLib.AVR.cpp built for the ATmega32U4
\* (Timer3); only the arithmetic specification arms it.
AvrLike(v) == v \in {"CORE", "AVR", "AVR32U4"}
\* F_CPU of the build (only the AVR builds read it).
FCpuSet == {8000000, 16000000}
NULL == "NULL"
Callbacks == {"cbA", "cbB"}
\* Requested durations: 0 (invalid), below one period, one exact period,
\* several periods plus a remainder.
DurUs == {0, 10, 16384, 40000}
\* Seconds: one second is 61 overflows on AVR; STM32 counts the seconds.
DurS(v) == IF v = "STM32" THEN {0, 1, 3} ELSE {0, 1}
Units == {"us", "s"}
Durations(v, unit) == IF unit = "us" THEN DurUs ELSE DurS(v)

\* ------------------------------------------------------------ arithmetic
\* 32-bit values that do not fit the checker's integers are kept as two
\* 16-bit limbs <<high, low>>.
Limbs(n) == <<n \div 65536, n % 65536>>
\* TC_SetRC(TC1, 0, 4294967295)
RC_FULL == <<65535, 65535>>

\* x * 1000000 in unsigned long (32 bits): 1000000 = 15 * 65536 + 16960.
Mul1e6(x) ==
    LET xl == x % 65536
        xh == x \div 65536
        p0 == xl * 16960
        mid == xl * 15 + xh * 16960 + (p0 \div 65536)
    IN  <<mid % 65536, p0 % 65536>>
Div16384(p) == p[1] * 4 + (p[2] \div 16384)
Mod16384(p) == p[2] % 16384
U32Val(p) == p[1] * 65536 + p[2]

\* unsigned long -> unsigned char
U8(x) == x % 256
\* _remaining = 256 - (q + 0.5): the double 255.5 - q, converted to
\* unsigned char by truncation. Computed in halves: (512 - (2q + 1)) / 2.
Round8(q) == (512 - (2 * q + 1)) \div 2

\* us = F_CPU / 16000000 * us (integer division first)
ScaleFCpu(F, d) == IF F # 16000000 THEN (F \div 16000000) * d ELSE d

\* Timer2 prescaler table of _attachInterrupt_us: overflows, remaining,
\* divisor selected by CSMask.
AvrDecompUs(us) ==
    IF us >= 16384 THEN
        [ov |-> us \div 16384, rem |-> Round8((us % 16384) \div 64), cs |-> 1024]
    ELSE IF us >= 4096 THEN [ov |-> 0, rem |-> Round8(us \div 64), cs |-> 1024]
    ELSE IF us >= 2048 THEN [ov |-> 0, rem |-> Round8(us \div 16), cs |-> 256]
    ELSE IF us >= 1024 THEN [ov |-> 0, rem |-> Round8(us \div 8), cs |-> 128]
    ELSE IF us >= 512 THEN [ov |-> 0, rem |-> Round8(us \div 4), cs |-> 64]
    ELSE IF us >= 128 THEN [ov |-> 0, rem |-> Round8(us \div 2), cs |-> 32]
    ELSE IF us >= 16 THEN [ov |-> 0, rem |-> U8(256 - us * 2), cs |-> 8]
    ELSE [ov |-> 0, rem |-> U8(256 - us * 16), cs |-> 1]

\* A seconds path whose guard on the previous _overflows is within reach.
AvrDecompS_liveGuard(s, oldOverflows) ==
    LET ov == IF oldOverflows > 50000
              THEN U32Val(Mul1e6(s \div 16384))
              ELSE Div16384(Mul1e6(s))
    IN  [ov |-> ov, rem |-> Round8(Mod16384(Mul1e6(s)) \div 64), cs |-> 1024]
\* Timer3 prescaler table of the ATmega32U4 build: the divisor selected and
\* the values _remaining can take. 256 - us * 2 is unsigned arithmetic and
\* wraps; 256 - (us / 4 + 0.5) is a double, below -1 from us = 1028 on,
\* whose conversion to unsigned char is undefined: any value. For
\* us >= 16384 CSMask selects the external clock (no divisor).
Avr32U4Cs(us) ==
    IF us >= 16384 THEN 0
    ELSE IF us >= 4096 THEN 1024
    ELSE IF us >= 2048 THEN 256
    ELSE IF us >= 512 THEN 64
    ELSE IF us >= 16 THEN 8
    ELSE 1
Avr32U4Rems(us) ==
    IF us >= 16384 THEN {Round8((us % 16384) \div 64)}
    ELSE IF us >= 4096 THEN {Round8(us \div 64)}
    ELSE IF us >= 2048 THEN {Round8(us \div 16)}
    ELSE IF us >= 1028 THEN 0..255
    ELSE IF us >= 1024 THEN {0}
    ELSE IF us >= 512 THEN {Round8(us \div 4)}
    ELSE IF us >= 16 THEN {U8(256 - us * 2)}
    ELSE {U8(256 - us * 16)}

\* _attachInterrupt_s on AVR: reads the previous _overflows before
\* assigning it; all products are 32-bit.
AvrDecompS(s, oldOverflows) ==
    LET ov == IF oldOverflows > 500000
              THEN U32Val(Mul1e6(s \div 16384))
              ELSE Div16384(Mul1e6(s))
        temp == (s \div 16384) * 16384
        q == IF s > 16384
             THEN Mod16384(Mul1e6(s - temp)) \div 64
             ELSE Mod16384(Mul1e6(s)) \div 64
    IN  [ov |-> ov, rem |-> Round8(q), cs |-> 1024]

\* SAM, us <= 1636178017: _remaining = us / 0.380952381 + 0.5, truncated.
\* 0.380952381 * 2.625 = 1.000000000125, so the quotient is just below
\* us * 2.625 = 21us/8: the truncation of (21us + 4)/8 minus less than 1/8.
SamTicksUs(us) ==
    LET n == 21 * us + 4
    IN  IF n % 8 = 0 THEN (n \div 8) - 1 ELSE n \div 8
\* SAM, s <= 6544: _remaining = s / 0.000001523809524 + 0.5, truncated
\* (0.000001523809524 * 656250 = 1.000000000125; exact for s < 6096).
SamTicksS(s) == s * 656250

\* ----------------------------------------------------------------- state
VARIABLES
    hw,           \* the build (fixed)
    F_CPU,        \* the build's CPU frequency (fixed)
    _type,        \* mode
    _cb,          \* stored callback
    _overflows,   \* overflows remaining
    _remaining,   \* remainder still to load
    __overflows,  \* saved decomposition
    __remaining,
    _toInit,      \* STM32: interrupt not attached yet
    irq,          \* the timer's event delivery: TIMSK2.TOIE2 (AVR),
                  \* NVIC TC3_IRQn (SAM), Timer3 running (STM32)
    gie,          \* the CPU accepts the timer interrupt: SREG.I on AVR;
                  \* on ARM, FALSE exactly while the handler is active
    counter,      \* reload value as 16-bit limbs: TCNT2 (AVR), RC (SAM),
                  \* period in us (STM32)
    prescaler,    \* clock divisor selected
    pc,           \* normal context: position inside a public operation
    req,          \* normal context: arguments of the operation in progress
    isr,          \* number of handler activations on the stack
    cbpc,         \* innermost callback: "none", "entered", "acted"
    budget,       \* public operations the sketch still calls
    last,         \* history: kind of the latest event
    fired,        \* history: callback invocations since the last operation
    gap,          \* history: handled ticks since the last arm or invocation
    lastGap,      \* history: gap at the latest invocation
    who,          \* history: callback invoked latest
    armed,        \* history: arguments of the latest completed set* call
    cleared       \* history: clearTimer() calls completed since the latest
                  \* arm with D > 0 (saturates at MaxClears)

sched == <<_type, _cb, _overflows, _remaining, __overflows, __remaining>>
hwregs == <<_toInit, irq, gie, counter, prescaler>>
build == <<hw, F_CPU>>
ctx == <<pc, req, isr, cbpc, budget>>
hist == <<last, fired, gap, lastGap, who, armed, cleared>>
vars == <<build, sched, hwregs, ctx, hist>>

\* The object and its timer as one record, for the operations below.
St ==
    [hw |-> hw, F_CPU |-> F_CPU, _type |-> _type, _cb |-> _cb,
     _overflows |-> _overflows, _remaining |-> _remaining,
     __overflows |-> __overflows, __remaining |-> __remaining,
     _toInit |-> _toInit, irq |-> irq, gie |-> gie, counter |-> counter,
     prescaler |-> prescaler]

SetSt(r) ==
    /\ hw' = r.hw
    /\ F_CPU' = r.F_CPU
    /\ _type' = r._type
    /\ _cb' = r._cb
    /\ _overflows' = r._overflows
    /\ _remaining' = r._remaining
    /\ __overflows' = r.__overflows
    /\ __remaining' = r.__remaining
    /\ _toInit' = r._toInit
    /\ irq' = r.irq
    /\ gie' = r.gie
    /\ counter' = r.counter
    /\ prescaler' = r.prescaler

\* The fields of the schedule proper.
Sched(r) ==
    [_type |-> r._type, _cb |-> r._cb, _overflows |-> r._overflows,
     _remaining |-> r._remaining, __overflows |-> r.__overflows,
     __remaining |-> r.__remaining]

\* State after construction (member initialisers; the timer interrupt is
\* disabled at reset; the STM32 constructor calls clearTimer()).
InitSt(v, f) ==
    [hw |-> v, F_CPU |-> f, _type |-> UTIMERLIB_TYPE_OFF, _cb |-> NULL,
     _overflows |-> 0, _remaining |-> 0, __overflows |-> 0,
     __remaining |-> 0, _toInit |-> (v = "STM32"), irq |-> FALSE,
     gie |-> TRUE, counter |-> Limbs(0), prescaler |-> 0]

\* ------------------------------------------------------------ clearTimer
\* A clearTimer() that forgets to write the mode.
ClearTimerType_keepMode(s) == s
\* First statement: _type = UTIMERLIB_TYPE_OFF.
ClearTimerType(s) == [s EXCEPT !._type = UTIMERLIB_TYPE_OFF]
\* A device part that leaves the timer's event delivery enabled.
ClearTimerHw_keepDelivery(s) ==
    IF AvrLike(s.hw) THEN [s EXCEPT !.gie = FALSE] ELSE s
\* A device part that also zeroes the countdown.
ClearTimerHw_zeroCountdown(s) ==
    [s EXCEPT !.irq = FALSE, !.gie = (s.gie /\ ~AvrLike(s.hw)),
              !._overflows = 0, !._remaining = 0]
\* Then the device part: TIMSK2 &= ~(1 << TOIE2); SREG &= 0x7F (AVR),
\* NVIC_DisableIRQ (SAM), Timer3.pause() (STM32).
ClearTimerHw(s) ==
    IF AvrLike(s.hw) THEN [s EXCEPT !.irq = FALSE, !.gie = FALSE]
    ELSE [s EXCEPT !.irq = FALSE]
clearTimer(s) == ClearTimerHw(ClearTimerType(s))

\* ------------------------------------------------------ _attachInterrupt
\* uTimerLib.cpp, ARDUINO_ARCH_AVR: no compensating overflow; the
\* remainder is loaded at once when there is no full overflow.
CoreAttachUs(s, us0) ==
    LET us == ScaleFCpu(s.F_CPU, us0)
        d == AvrDecompUs(us)
    IN  [s EXCEPT !._overflows = d.ov, !.__overflows = d.ov,
                  !.__remaining = d.rem,
                  !._remaining = IF d.ov = 0 THEN 0 ELSE d.rem,
                  !.counter = IF d.ov = 0 THEN Limbs(d.rem) ELSE Limbs(0),
                  !.prescaler = d.cs, !.irq = TRUE, !.gie = TRUE]
\* Seconds: _loadRemaining() without clearing _remaining.
CoreAttachS(s, s0) ==
    LET sec == ScaleFCpu(s.F_CPU, s0)
        d == AvrDecompS(sec, s._overflows)
    IN  [s EXCEPT !._overflows = d.ov, !.__overflows = d.ov,
                  !.__remaining = d.rem, !._remaining = d.rem,
                  !.counter = IF d.ov = 0 THEN Limbs(d.rem) ELSE Limbs(0),
                  !.prescaler = d.cs, !.irq = TRUE, !.gie = TRUE]

\* hardware/uTimerLib.AVR.cpp: _overflows += 1 after the decomposition is
\* saved; TCNT2 = 0 always.
AvrAttachUs(s, us0) ==
    LET us == ScaleFCpu(s.F_CPU, us0)
        d == AvrDecompUs(us)
    IN  [s EXCEPT !._overflows = d.ov + 1, !.__overflows = d.ov,
                  !._remaining = d.rem, !.__remaining = d.rem,
                  !.counter = Limbs(0), !.prescaler = d.cs,
                  !.irq = TRUE, !.gie = TRUE]
AvrAttachS(s, s0) ==
    LET sec == ScaleFCpu(s.F_CPU, s0)
        d == AvrDecompS(sec, s._overflows)
    IN  [s EXCEPT !._overflows = d.ov + 1, !.__overflows = d.ov,
                  !._remaining = d.rem, !.__remaining = d.rem,
                  !.counter = Limbs(0), !.prescaler = d.cs,
                  !.irq = TRUE, !.gie = TRUE]

\* hardware/uTimerLib.AVR.cpp, ATmega32U4: as above with Timer3 and its
\* table; rem is the value the conversion to unsigned char produced.
Avr32U4AttachUs(s, us0, rem) ==
    LET us == ScaleFCpu(s.F_CPU, us0)
        ov == IF us >= 16384 THEN us \div 16384 ELSE 0
    IN  [s EXCEPT !._overflows = ov + 1, !.__overflows = ov,
                  !._remaining = rem, !.__remaining = rem,
                  !.counter = Limbs(0), !.prescaler = Avr32U4Cs(us),
                  !.irq = TRUE, !.gie = TRUE]

\* hardware/uTimerLib.SAM.cpp, delays of at most one period (us <=
\* 1636178017, s <= 6544): no overflow, the remainder goes to RC at once.
SamAttachUs(s, us) ==
    LET r == SamTicksUs(us)
    IN  [s EXCEPT !._overflows = 0, !.__overflows = 0, !.__remaining = r,
                  !._remaining = 0, !.counter = Limbs(r), !.prescaler = 32,
                  !.irq = TRUE]
SamAttachS(s, sec) ==
    LET r == SamTicksS(sec)
    IN  [s EXCEPT !._overflows = 0, !.__overflows = 0, !.__remaining = r,
                  !._remaining = 0, !.counter = Limbs(r), !.prescaler = 128,
                  !.irq = TRUE]

\* SAM, us > 1636178017, for us = hi * 65536 (hi in 24967..65535):
\*   _overflows = us / 1636178017.523809524            (1 below hi = 49933,
\*                                                      2 from there on)
\*   _remaining = (us - 1636178017.523809524 * _overflows) / 0.380952381
\*                + 0.5, truncated.
\* 1636178017.523809524 = 1636178017 + 11/21 and the quotient is just
\* below 2.625 times the difference: with n = us - 3272356035 it is the
\* truncation of (21n + 3)/8, with m = us - 1636178017 of (21m - 7)/8,
\* both of which have the fraction 1/2 for these us.
SamDecompUsLong(hi) ==
    IF hi >= 49933
    THEN [ov |-> 2, rem |-> (21 * ((hi - 49933) * 65536 + 53053) - 1) \div 8]
    ELSE [ov |-> 1, rem |-> (21 * ((hi - 24967) * 65536 + 59295) - 11) \div 8]
SamAttachUsLong(s, hi) ==
    LET d == SamDecompUsLong(hi)
    IN  [s EXCEPT !._overflows = d.ov, !.__overflows = d.ov,
                  !._remaining = d.rem, !.__remaining = d.rem,
                  !.counter = RC_FULL, !.prescaler = 32, !.irq = TRUE]

\* hardware/uTimerLib.STM32.cpp: the period is the whole delay (us) or one
\* second, counted _overflows times.
Stm32AttachUs(s, us) ==
    [s EXCEPT !._overflows = 0, !.__overflows = 0, !._remaining = 0,
              !.__remaining = 0, !.counter = Limbs(us), !._toInit = FALSE,
              !.irq = TRUE]
Stm32AttachS(s, sec) ==
    [s EXCEPT !._overflows = sec, !.__overflows = sec, !._remaining = 0,
              !.__remaining = 0, !.counter = Limbs(1000000),
              !._toInit = FALSE, !.irq = TRUE]

_attachInterrupt_us(s, us) ==
    IF us = 0 THEN s
    ELSE CASE s.hw = "CORE" -> CoreAttachUs(s, us)
           [] s.hw = "AVR" -> AvrAttachUs(s, us)
           [] s.hw = "SAM" -> SamAttachUs(s, us)
           [] s.hw = "STM32" -> Stm32AttachUs(s, us)
_attachInterrupt_s(s, sec) ==
    IF sec = 0 THEN s
    ELSE CASE s.hw = "CORE" -> CoreAttachS(s, sec)
           [] s.hw = "AVR" -> AvrAttachS(s, sec)
           [] s.hw = "SAM" -> SamAttachS(s, sec)
           [] s.hw = "STM32" -> Stm32AttachS(s, sec)
\* The unit "us64k" stands for a microsecond delay of d * 65536 on SAM.
Attach(s, unit, d) ==
    IF unit = "us" THEN _attachInterrupt_us(s, d)
    ELSE IF unit = "s" THEN _attachInterrupt_s(s, d)
    ELSE SamAttachUsLong(s, d)

\* setTimeout_us / setInterval_us / setTimeout_s / setInterval_s, statement
\* by statement: clearTimer(); _cb = cb; _type = mode; _attachInterrupt_*(d)
\* A set* that does not store the callback.
SetCb_dropStore(s, cb) == s
SetCb(s, cb) == [s EXCEPT !._cb = cb]
SetType(s, mode) == [s EXCEPT !._type = mode]
SetTimer(s, mode, cb, unit, d) ==
    Attach(SetType(SetCb(clearTimer(s), cb), mode), unit, d)

\* ------------------------------------------------------------ _interrupt
\* A handler that re-arms nothing.
Rearm_skip(s) == s
\* A re-arm that writes the consumed remainder back to the saved one.
Rearm_driftSaved(s) ==
    IF s.__overflows = 0 THEN
        [s EXCEPT !.counter = Limbs(s.__remaining), !._remaining = 0,
                  !.__remaining = 0]
    ELSE
        [s EXCEPT !._overflows = s.__overflows,
                  !._remaining = s.__remaining,
                  !.__remaining = s._remaining,
                  !.counter = IF s.hw = "SAM" THEN RC_FULL ELSE s.counter]
\* A re-arm that restores the overflow count but not the remainder.
Rearm_dropRemainder(s) ==
    IF s.__overflows = 0 THEN
        [s EXCEPT !.counter = Limbs(s.__remaining), !._remaining = 0]
    ELSE
        [s EXCEPT !._overflows = s.__overflows,
                  !.counter = IF s.hw = "SAM" THEN RC_FULL ELSE s.counter]
\* Interval, deadline elapsed: restore the counters from the saved
\* decomposition; with no full overflow the remainder is loaded at once.
Rearm(s) ==
    IF s.__overflows = 0 THEN
        [s EXCEPT !.counter = Limbs(s.__remaining), !._remaining = 0]
    ELSE
        [s EXCEPT !._overflows = s.__overflows,
                  !._remaining = s.__remaining,
                  !.counter = IF s.hw = "SAM" THEN RC_FULL ELSE s.counter]

\* A handler that calls _cb() of a timeout without clearTimer() first.
GenericElapse_noClearBeforeCb(s) ==
    LET ov == IF s._overflows > 0 THEN s._overflows - 1 ELSE s._overflows
        s1 == [s EXCEPT !._overflows = ov]
    IN  IF ov = 0 /\ s1._remaining > 0 THEN
            [st |-> [s1 EXCEPT !.counter = Limbs(s1._remaining),
                               !._remaining = 0],
             kind |-> "load"]
        ELSE IF ov = 0 /\ s1._remaining = 0 THEN
            [st |-> IF s1._type = UTIMERLIB_TYPE_INTERVAL THEN Rearm(s1)
                    ELSE s1,
             kind |-> "fire"]
        ELSE
            [st |-> IF s1.hw = "SAM" THEN [s1 EXCEPT !.counter = RC_FULL]
                    ELSE s1,
             kind |-> "count"]
\* A handler that loads the remainder without clearing it.
GenericElapse_keepRemainder(s) ==
    LET ov == IF s._overflows > 0 THEN s._overflows - 1 ELSE s._overflows
        s1 == [s EXCEPT !._overflows = ov]
    IN  IF ov = 0 /\ s1._remaining > 0 THEN
            [st |-> [s1 EXCEPT !.counter = Limbs(s1._remaining)],
             kind |-> "load"]
        ELSE IF ov = 0 /\ s1._remaining = 0 THEN
            [st |-> IF s1._type = UTIMERLIB_TYPE_TIMEOUT THEN clearTimer(s1)
                    ELSE IF s1._type = UTIMERLIB_TYPE_INTERVAL THEN Rearm(s1)
                    ELSE s1,
             kind |-> "fire"]
        ELSE
            [st |-> IF s1.hw = "SAM" THEN [s1 EXCEPT !.counter = RC_FULL]
                    ELSE s1,
             kind |-> "count"]
\* A handler that drops the remainder while overflows are left to count.
GenericElapse_countDropsRemainder(s) ==
    LET ov == IF s._overflows > 0 THEN s._overflows - 1 ELSE s._overflows
        s1 == [s EXCEPT !._overflows = ov]
    IN  IF ov = 0 /\ s1._remaining > 0 THEN
            [st |-> [s1 EXCEPT !.counter = Limbs(s1._remaining),
                               !._remaining = 0],
             kind |-> "load"]
        ELSE IF ov = 0 /\ s1._remaining = 0 THEN
            [st |-> IF s1._type = UTIMERLIB_TYPE_TIMEOUT THEN clearTimer(s1)
                    ELSE IF s1._type = UTIMERLIB_TYPE_INTERVAL THEN Rearm(s1)
                    ELSE s1,
             kind |-> "fire"]
        ELSE
            [st |-> [s1 EXCEPT !._remaining = 0,
                               !.counter = IF s1.hw = "SAM" THEN RC_FULL
                                           ELSE s1.counter],
             kind |-> "count"]
\* A handler that decrements the countdown without testing it (below 0
\* stands for the wrapped unsigned value).
GenericElapse_decrementAtZero(s) ==
    LET ov == s._overflows - 1
        s1 == [s EXCEPT !._overflows = ov]
    IN  IF ov = 0 /\ s1._remaining > 0 THEN
            [st |-> [s1 EXCEPT !.counter = Limbs(s1._remaining),
                               !._remaining = 0],
             kind |-> "load"]
        ELSE IF ov = 0 /\ s1._remaining = 0 THEN
            [st |-> IF s1._type = UTIMERLIB_TYPE_TIMEOUT THEN clearTimer(s1)
                    ELSE IF s1._type = UTIMERLIB_TYPE_INTERVAL THEN Rearm(s1)
                    ELSE s1,
             kind |-> "fire"]
        ELSE
            [st |-> IF s1.hw = "SAM" THEN [s1 EXCEPT !.counter = RC_FULL]
                    ELSE s1,
             kind |-> "count"]
\* The handler body after the Off check, up to (not including) the call
\* of _cb(); kind tells what it did: "count", "load", or "fire" (it goes
\* on to call _cb()).
GenericElapse(s) ==
    LET ov == IF s._overflows > 0 THEN s._overflows - 1 ELSE s._overflows
        s1 == [s EXCEPT !._overflows = ov]
    IN  IF ov = 0 /\ s1._remaining > 0 THEN
            [st |-> [s1 EXCEPT !.counter = Limbs(s1._remaining),
                               !._remaining = 0],
             kind |-> "load"]
        ELSE IF ov = 0 /\ s1._remaining = 0 THEN
            [st |-> IF s1._type = UTIMERLIB_TYPE_TIMEOUT THEN clearTimer(s1)
                    ELSE IF s1._type = UTIMERLIB_TYPE_INTERVAL THEN Rearm(s1)
                    ELSE s1,
             kind |-> "fire"]
        ELSE
            [st |-> IF s1.hw = "SAM" THEN [s1 EXCEPT !.counter = RC_FULL]
                    ELSE s1,
             kind |-> "count"]

\* An STM32 handler that counts while _overflows > 0.
Stm32Elapse_countToZero(s) ==
    IF s._overflows > 0 THEN
        [st |-> [s EXCEPT !._overflows = s._overflows - 1], kind |-> "count"]
    ELSE
        LET s1 == [s EXCEPT !._overflows = s.__overflows]
        IN  [st |-> IF s1._type = UTIMERLIB_TYPE_TIMEOUT THEN clearTimer(s1)
                    ELSE s1,
             kind |-> "fire"]
\* STM32: no remainder; counts while _overflows > 1.
Stm32Elapse(s) ==
    IF s._overflows > 1 THEN
        [st |-> [s EXCEPT !._overflows = s._overflows - 1], kind |-> "count"]
    ELSE
        LET s1 == [s EXCEPT !._overflows = s.__overflows]
        IN  [st |-> IF s1._type = UTIMERLIB_TYPE_TIMEOUT THEN clearTimer(s1)
                    ELSE s1,
             kind |-> "fire"]

Elapse(s) == IF s.hw = "STM32" THEN Stm32Elapse(s) ELSE GenericElapse(s)

\* A handler without the Off check.
_interrupt_noOffCheck(s) == Elapse(s)
\* if (_type == UTIMERLIB_TYPE_OFF) return;   kind "off"
_interrupt(s) ==
    IF s._type = UTIMERLIB_TYPE_OFF THEN [st |-> s, kind |-> "off"]
    ELSE Elapse(s)

\* ------------------------------------------------------------------ Init
NoReq == [op |-> "none", mode |-> UTIMERLIB_TYPE_OFF, cb |-> NULL,
          over |-> "off"]
ClearReq == [NoReq EXCEPT !.op = "clear"]
\* History record of a completed set* call: its arguments, the context it
\* ran in ("normal", "callback") and the schedule its clearTimer() found
\* ("off", "start": armed and no tick handled yet, "mid": counting down).
NoArm == [op |-> "none", mode |-> UTIMERLIB_TYPE_OFF, cb |-> NULL,
          unit |-> "us", d |-> 0, from |-> "none", over |-> "off"]
Armed(mode, cb, unit, d, from, over) ==
    [op |-> "set", mode |-> mode, cb |-> cb, unit |-> unit, d |-> d,
     from |-> from, over |-> over]
Phase ==
    IF _type = UTIMERLIB_TYPE_OFF THEN "off"
    ELSE IF gap > 0 THEN "mid" ELSE "start"

Min(a, b) == IF a < b THEN a ELSE b

\* The state after construction of one of the builds V.
InitFor(V) ==
    /\ hw \in V
    /\ F_CPU \in (IF AvrLike(hw) THEN FCpuSet ELSE {16000000})
    /\ _type = InitSt(hw, F_CPU)._type
    /\ _cb = InitSt(hw, F_CPU)._cb
    /\ _overflows = InitSt(hw, F_CPU)._overflows
    /\ _remaining = InitSt(hw, F_CPU)._remaining
    /\ __overflows = InitSt(hw, F_CPU).__overflows
    /\ __remaining = InitSt(hw, F_CPU).__remaining
    /\ _toInit = InitSt(hw, F_CPU)._toInit
    /\ irq = InitSt(hw, F_CPU).irq
    /\ gie = InitSt(hw, F_CPU).gie
    /\ counter = InitSt(hw, F_CPU).counter
    /\ prescaler = InitSt(hw, F_CPU).prescaler
    /\ pc = "idle"
    /\ req = NoReq
    /\ isr = 0
    /\ cbpc = "none"
    /\ budget \in 0..MaxCalls
    /\ last = "init"
    /\ fired = 0
    /\ gap = 0
    /\ lastGap = 0
    /\ who = NULL
    /\ armed = NoArm
    /\ cleared = 0
Init == InitFor(Variants)

\* History after a completed public operation.
HistClear ==
    /\ last' = "clear"
    /\ fired' = 0
    /\ gap' = 0
    /\ lastGap' = 0
    /\ cleared' = Min(cleared + 1, MaxClears)
    /\ UNCHANGED <<who, armed>>
HistSet(mode, cb, unit, d, from, over) ==
    /\ last' = IF d = 0 THEN "set0" ELSE "arm"
    /\ fired' = 0
    /\ gap' = 0
    /\ lastGap' = 0
    /\ cleared' = IF d = 0 THEN cleared ELSE 0
    /\ armed' = Armed(mode, cb, unit, d, from, over)
    /\ UNCHANGED who

\* ------------------------------------------------- normal-context steps
\* The sketch calls clearTimer().
CallClear ==
    /\ pc = "idle" /\ isr = 0
    /\ IF last = "clear" /\ cleared < MaxClears
       THEN budget' = budget
       ELSE budget > 0 /\ budget' = budget - 1
    /\ req' = ClearReq
    /\ pc' = "clr_type"
    /\ UNCHANGED <<build, sched, hwregs, isr, cbpc, hist>>

\* The sketch calls setTimeout_us/_s or setInterval_us/_s. The arguments
\* are drawn at the statement that first reads each of them.
CallSet ==
    /\ pc = "idle" /\ isr = 0 /\ budget > 0
    /\ req' = [NoReq EXCEPT !.op = "set"]
    /\ pc' = "clr_type"
    /\ budget' = budget - 1
    /\ UNCHANGED <<build, sched, hwregs, isr, cbpc, hist>>

StepClrType ==
    /\ pc = "clr_type" /\ isr = 0
    /\ SetSt(ClearTimerType(St))
    /\ req' = [req EXCEPT !.over = Phase]
    /\ pc' = "clr_hw"
    /\ UNCHANGED <<isr, cbpc, budget, hist>>

StepClrHw ==
    /\ pc = "clr_hw" /\ isr = 0
    /\ SetSt(ClearTimerHw(St))
    /\ IF req.op = "clear"
       THEN /\ pc' = "idle"
            /\ req' = NoReq
            /\ HistClear
       ELSE /\ pc' = "set_cb"
            /\ UNCHANGED <<req, hist>>
    /\ UNCHANGED <<isr, cbpc, budget>>

StepSetCb ==
    /\ pc = "set_cb" /\ isr = 0
    /\ \E cb \in Callbacks :
          /\ req' = [req EXCEPT !.cb = cb]
          /\ SetSt(SetCb(St, cb))
    /\ pc' = "set_type"
    /\ UNCHANGED <<isr, cbpc, budget, hist>>

StepSetType ==
    /\ pc = "set_type" /\ isr = 0
    /\ \E mode \in {UTIMERLIB_TYPE_TIMEOUT, UTIMERLIB_TYPE_INTERVAL} :
          /\ req' = [req EXCEPT !.mode = mode]
          /\ SetSt(SetType(St, mode))
    /\ pc' = "attach"
    /\ UNCHANGED <<isr, cbpc, budget, hist>>

StepAttach ==
    /\ pc = "attach" /\ isr = 0
    /\ \E unit \in Units :
          \E d \in Durations(hw, unit) :
             /\ SetSt(Attach(St, unit, d))
             /\ HistSet(req.mode, req.cb, unit, d, "normal", req.over)
    /\ pc' = "idle"
    /\ req' = NoReq
    /\ UNCHANGED <<isr, cbpc, budget>>

\* --------------------------------------------------------- interrupt side
\* A tick event is delivered: the handler runs up to the call of _cb(), or
\* to its return when it does not call it. Entry masks the interrupt,
\* return (RETI / exception return) unmasks it.
Tick ==
    /\ irq /\ gie
    /\ LET r == _interrupt(St)
       IN  /\ SetSt([r.st EXCEPT !.gie = (r.kind # "fire")])
           /\ last' = r.kind
           /\ IF r.kind = "fire"
              THEN /\ isr' = isr + 1
                   /\ cbpc' = "entered"
                   /\ fired' = Min(fired + 1, MaxFired)
                   /\ who' = r.st._cb
                   /\ lastGap' = gap + 1
                   /\ gap' = 0
              ELSE /\ gap' = IF r.kind = "off" THEN gap ELSE gap + 1
                   /\ UNCHANGED <<isr, cbpc, fired, who, lastGap>>
    /\ UNCHANGED <<pc, req, budget, armed, cleared>>

\* The callback returns without calling the library.
CbNothing ==
    /\ cbpc = "entered"
    /\ cbpc' = "acted"
    /\ UNCHANGED <<build, sched, hwregs, pc, req, isr, budget, hist>>

\* The callback calls clearTimer().
CbClear ==
    /\ cbpc = "entered" /\ budget > 0
    /\ SetSt(clearTimer(St))
    /\ HistClear
    /\ cbpc' = "acted"
    /\ budget' = budget - 1
    /\ UNCHANGED <<pc, req, isr>>

\* The callback calls setTimeout_* / setInterval_*.
CbSet ==
    /\ cbpc = "entered" /\ budget > 0
    /\ \E mode \in {UTIMERLIB_TYPE_TIMEOUT, UTIMERLIB_TYPE_INTERVAL},
          cb \in Callbacks, unit \in Units :
          \E d \in Durations(hw, unit) :
             /\ SetSt(SetTimer(St, mode, cb, unit, d))
             /\ HistSet(mode, cb, unit, d, "callback", Phase)
    /\ cbpc' = "acted"
    /\ budget' = budget - 1
    /\ UNCHANGED <<pc, req, isr>>

\* A handler that restores the countdown from the saved decomposition
\* after _cb() has returned instead of before calling it.
Return_restoreAfterCb ==
    /\ cbpc = "acted" /\ isr > 0
    /\ isr' = isr - 1
    /\ cbpc' = IF isr > 1 THEN "acted" ELSE "none"
    /\ gie' = TRUE
    /\ _overflows' = __overflows
    /\ _remaining' = __remaining
    /\ UNCHANGED <<build, _type, _cb, __overflows, __remaining, _toInit, irq,
                   counter, prescaler, pc, req, budget, hist>>
\* _cb() has returned; the handler returns.
Return ==
    /\ cbpc = "acted" /\ isr > 0
    /\ isr' = isr - 1
    /\ cbpc' = IF isr > 1 THEN "acted" ELSE "none"
    /\ gie' = TRUE
    /\ UNCHANGED <<build, sched, _toInit, irq, counter, prescaler, pc, req,
                   budget, hist>>

Next ==
    \/ CallClear
    \/ CallSet
    \/ StepClrType
    \/ StepClrHw
    \/ StepSetCb
    \/ StepSetType
    \/ StepAttach
    \/ Tick
    \/ CbNothing
    \/ CbClear
    \/ CbSet
    \/ Return

Spec == Init /\ [][Next]_vars

\* The timer keeps producing events while delivery is enabled, and the CPU
\* keeps executing the statements of the context that is running.
Fairness ==
    /\ WF_vars(Tick)
    /\ WF_vars(CbNothing \/ CbClear \/ CbSet)
    /\ WF_vars(Return)
    /\ WF_vars(StepClrType \/ StepClrHw \/ StepSetCb \/ StepSetType \/ StepAttach)
FairSpec == Spec /\ Fairness

\* ------------------------------------------- arithmetic specification
\* One set* call on a freshly constructed object of an AVR build, run to
\* completion, with the delay drawn from a whole range: the decomposition
\* arithmetic of _attachInterrupt_us / _attachInterrupt_s.
ArmInit == InitFor({"CORE", "AVR", "AVR32U4"}) /\ budget = 0

ArmUs ==
    /\ last = "init" /\ hw \in Variants
    /\ \E mode \in {UTIMERLIB_TYPE_TIMEOUT, UTIMERLIB_TYPE_INTERVAL},
          us \in 1..MaxUs :
          /\ SetSt(SetTimer(St, mode, "cbA", "us", us))
          /\ HistSet(mode, "cbA", "us", us, "normal", Phase)
    /\ UNCHANGED ctx

ArmS ==
    /\ last = "init" /\ hw \in Variants
    /\ \E mode \in {UTIMERLIB_TYPE_TIMEOUT, UTIMERLIB_TYPE_INTERVAL},
          sec \in 1..MaxS :
          /\ SetSt(SetTimer(St, mode, "cbA", "s", sec))
          /\ HistSet(mode, "cbA", "s", sec, "normal", Phase)
    /\ UNCHANGED ctx

\* Seconds of a second call, below and past the 32-bit wrap.
SecAgain == {1, 2, 4294, 4295}
\* A second set*_s call, over the schedule a first set*_s call left
\* behind (the seconds path leaves the largest countdowns).
ReArmS ==
    /\ last = "arm" /\ armed.over = "off" /\ armed.unit = "s"
    /\ \E mode \in {UTIMERLIB_TYPE_TIMEOUT, UTIMERLIB_TYPE_INTERVAL},
          sec \in SecAgain :
          /\ SetSt(SetTimer(St, mode, "cbA", "s", sec))
          /\ HistSet(mode, "cbA", "s", sec, "normal", Phase)
    /\ UNCHANGED ctx

\* One set*_us call on a fresh object of the ATmega32U4 build.
ArmUs32U4 ==
    /\ last = "init" /\ hw = "AVR32U4"
    /\ \E mode \in {UTIMERLIB_TYPE_TIMEOUT, UTIMERLIB_TYPE_INTERVAL},
          us \in 1..MaxUs :
          \E rem \in Avr32U4Rems(ScaleFCpu(F_CPU, us)) :
             /\ SetSt(Avr32U4AttachUs(
                          SetType(SetCb(clearTimer(St), "cbA"), mode), us, rem))
             /\ HistSet(mode, "cbA", "us", us, "normal", Phase)
    /\ UNCHANGED ctx

ArmNext == ArmUs \/ ArmS \/ ReArmS \/ ArmUs32U4

ArmSpec == ArmInit /\ [][ArmNext]_vars

\* ------------------------------------------------ one-schedule runs
\* One set* call on a freshly constructed object, run to completion, then
\* tick events only; the callback does not call the library.
\* Microseconds: a short delay, a delay whose tick quotient is 255, one
\* exact period, a period plus a quotient of 255, periods plus a remainder.
RunUs == {10, 510, 16384, 32704, 40000}
\* Seconds on the AVR builds: 133144 is the first s whose 32-bit product
\* s * 1000000 is below 16384.
RunS(v) == IF AvrLike(v) THEN {1, 133144} ELSE DurS(v) \ {0}
\* SAM delays of one and of two full periods plus a remainder, in units
\* of 65536 us.
SamLongUs == {24967, 24968, 49933, 49934}
RunInputs(v) ==
    {[unit |-> "us", d |-> d] : d \in RunUs}
        \cup {[unit |-> "s", d |-> d] : d \in RunS(v)}
        \cup (IF v = "SAM"
              THEN {[unit |-> "us64k", d |-> h] : h \in SamLongUs}
              ELSE {})

RunInit == Init /\ budget = 0

ArmOnce ==
    /\ last = "init"
    /\ \E mode \in {UTIMERLIB_TYPE_TIMEOUT, UTIMERLIB_TYPE_INTERVAL},
          in \in RunInputs(hw) :
          /\ SetSt(SetTimer(St, mode, "cbA", in.unit, in.d))
          /\ HistSet(mode, "cbA", in.unit, in.d, "normal", Phase)
    /\ UNCHANGED ctx

RunNext == ArmOnce \/ Tick \/ CbNothing \/ Return

RunSpec == RunInit /\ [][RunNext]_vars

TypeOK ==
    /\ _type \in Modes
    /\ _cb \in Callbacks \cup {NULL}
    /\ _overflows \in Nat /\ _remaining \in Nat
    /\ irq \in BOOLEAN /\ gie \in BOOLEAN
    /\ isr \in 0..(MaxCalls + 1)
    /\ budget \in 0..MaxCalls

\* ---------------------------------------------------------------- claims
\* No public operation is in progress and none will be called any more.
Quiet == budget = 0 /\ pc = "idle" /\ last # "clear"
\* The latest completed operation is a set* call with D > 0.
LatestIsArm == armed.op = "set" /\ armed.d > 0 /\ cleared = 0
TimeoutArmed ==
    Quiet /\ LatestIsArm /\ armed.mode = UTIMERLIB_TYPE_TIMEOUT
IntervalArmed ==
    Quiet /\ LatestIsArm /\ armed.mode = UTIMERLIB_TYPE_INTERVAL
\* The state the latest set* call produces from the state after
\* construction.
Ref == SetTimer(InitSt(hw, F_CPU), armed.mode, armed.cb, armed.unit, armed.d)
\* The latest event is the return of a set* call with D > 0: no tick has
\* been handled and no statement of a later operation executed since.
JustArmed == last = "arm" /\ pc \in {"idle", "clr_type"}
\* Tick events between two invocations for a saved decomposition.
Period(k, r) == IF k = 0 THEN 1 ELSE k + (IF r > 0 THEN 1 ELSE 0)

\* C1: after setTimeout_us/_s(cb, D), D > 0, and no further API calls,
\* repeated tick events invoke cb exactly once: the invocation eventually
\* happens, never a second one, it is cb that is invoked, and from the
\* invocation on the mode is Off, delivery is disabled and a run of the
\* handler returns at once with the state as it was.
C1_TimeoutFiresOnce ==
    /\ [](TimeoutArmed => fired <= 1)
    /\ [](TimeoutArmed /\ fired = 1 =>
             /\ who = armed.cb
             /\ _type = UTIMERLIB_TYPE_OFF
             /\ ~irq
             /\ _interrupt(St) = [st |-> St, kind |-> "off"])
    /\ [](TimeoutArmed => <>(fired = 1))
\* The timeout has fired and its handler has returned.
C1_Witness == TimeoutArmed /\ fired = 1 /\ isr = 0 /\ cbpc = "none"

\* C2: after setInterval_us/_s(cb, D), D > 0, and no further API calls,
\* cb is invoked again and again, the saved decomposition stays the one the
\* call computed, and from the second invocation on every invocation comes
\* Period(saved overflows, saved remainder) tick events after the previous.
C2_IntervalPeriodic ==
    /\ [](IntervalArmed => <>(cbpc = "entered"))
    /\ [](IntervalArmed => <>(cbpc # "entered"))
    /\ [](IntervalArmed =>
             /\ __overflows = Ref.__overflows
             /\ __remaining = Ref.__remaining
             /\ (fired >= 1 => who = armed.cb)
             /\ (fired >= 2 => lastGap = Period(__overflows, __remaining)))
\* Second invocation of an interval of several overflows plus a remainder.
C2_Witness ==
    /\ IntervalArmed /\ fired >= 2 /\ cbpc = "entered"
    /\ __overflows > 0 /\ __remaining > 0

\* C3: once clearTimer() has returned, called from normal context or from
\* the callback, the mode is Off and delivery is disabled until the next
\* set* call writes it, and until a set* call with D > 0 completes no
\* callback has been invoked and no tick event that would invoke one can
\* be delivered.
C3_ClearCancels ==
    /\ (last = "clear" /\ pc # "attach" =>
           _type = UTIMERLIB_TYPE_OFF /\ ~irq)
    /\ (cleared > 0 =>
           /\ fired = 0
           /\ cbpc # "entered"
           /\ ~(irq /\ gie /\ _interrupt(St).kind = "fire"))
\* clearTimer() called by the callback of an interval, handler returned.
C3_Witness ==
    /\ last = "clear" /\ cleared = 1 /\ who # NULL /\ isr = 0 /\ pc = "idle"
    /\ armed.mode = UTIMERLIB_TYPE_INTERVAL /\ armed.d > 0

\* C4: a tick event delivered while the mode is Off invokes no callback and
\* leaves mode, callback, counters, saved decomposition and the hardware
\* reload value unchanged.
C4_StaleTickIgnored ==
    [][Tick /\ _type = UTIMERLIB_TYPE_OFF =>
         UNCHANGED <<sched, counter, prescaler, isr, cbpc, fired, who>>]_vars
\* The handler has just run with the mode Off.
C4_Witness == last = "off" /\ _type = UTIMERLIB_TYPE_OFF /\ _cb # NULL

\* C5: a set* call with D > 0 made by the callback leaves, up to and after
\* the return of the handler, the mode, callback, countdown, saved
\* decomposition, reload value and prescaler of the same call made from
\* normal context on a fresh object, with delivery enabled; the handler
\* changes none of them after the callback.
C5_ArmFromCallback ==
    JustArmed /\ armed.from = "callback" =>
        /\ Sched(St) = Sched(Ref)
        /\ counter = Ref.counter
        /\ prescaler = Ref.prescaler
        /\ irq
        /\ (isr = 0 => gie)
\* The callback of an interval re-armed the timer; the handler returned.
C5_Witness ==
    /\ JustArmed /\ armed.from = "callback" /\ armed.over # "off"
    /\ isr = 0 /\ cbpc = "none" /\ _overflows > 0

\* C6: whenever no public operation and no handler is in progress, the
\* mode is one of Off, Timeout, Interval, and with the mode Off the timer's
\* event delivery is disabled.
C6_ModeInvariant ==
    pc = "idle" /\ isr = 0 =>
        /\ _type \in Modes
        /\ (_type = UTIMERLIB_TYPE_OFF => ~irq)
\* Off again after a schedule was cancelled from normal context.
C6_Witness ==
    /\ pc = "idle" /\ isr = 0 /\ _type = UTIMERLIB_TYPE_OFF
    /\ last = "clear" /\ armed.op = "set" /\ armed.d > 0

\* C7: a set* call with D > 0 returns with the requested mode, the given
\* callback, and the countdown and saved decomposition the same call
\* produces on a fresh object, whatever schedule it found.
C7_ArmSupersedes ==
    JustArmed =>
        /\ _type = armed.mode
        /\ _cb = armed.cb
        /\ _overflows = Ref._overflows
        /\ _remaining = Ref._remaining
        /\ __overflows = Ref.__overflows
        /\ __remaining = Ref.__remaining
\* Armed from normal context over a schedule that was counting down.
C7_Witness ==
    /\ JustArmed /\ armed.from = "normal" /\ armed.over = "mid"
    /\ _overflows > 0

\* C8: no statement of clearTimer() changes the stored callback, the
\* countdown or the saved decomposition; it returns with the mode Off and
\* delivery disabled; and a clearTimer() that follows a clearTimer()
\* changes nothing of the object and its timer (the CPU's global interrupt
\* flag, which the return from a handler sets again, is not part of it).
ClearStep ==
    \/ CbClear
    \/ (req.op = "clear" /\ (StepClrType \/ StepClrHw))
C8_ClearIdempotent ==
    [][ClearStep =>
         /\ UNCHANGED <<_cb, _overflows, _remaining, __overflows, __remaining>>
         /\ (last' = "clear" => _type' = UTIMERLIB_TYPE_OFF /\ ~irq')
         /\ (last = "clear" =>
               UNCHANGED <<sched, _toInit, irq, counter, prescaler>>)]_vars
\* Two clearTimer() calls in a row have completed after a schedule.
C8_Witness ==
    /\ cleared = 2 /\ last = "clear" /\ pc = "idle"
    /\ _cb # NULL /\ __overflows > 0

\* C9: a set* call with duration 0 installs nothing: made when the mode is
\* Off, it returns with the mode Off.
C9_ZeroIsNoOp ==
    last = "set0" /\ armed.over = "off" => _type = UTIMERLIB_TYPE_OFF

\* C10: no tick handler runs inside a set* call, from the first statement
\* of its clearTimer() to the end of arming.
C10_NoHandlerInsideSet ==
    ~(req.op = "set" /\ pc \notin {"idle", "clr_type"} /\ last = "off")

\* C11: only the completion of a set* call writes the saved decomposition;
\* no tick and no clearTimer() changes it, so whenever the latest set* call
\* had D > 0 it is the pair that call computed, after any number of
\* periods.
C11_SavedDecompositionFrame ==
    /\ [][<<__overflows, __remaining>>' # <<__overflows, __remaining>> =>
            StepAttach \/ CbSet]_vars
    /\ [](armed.op = "set" /\ armed.d > 0 =>
            /\ __overflows = Ref.__overflows
            /\ __remaining = Ref.__remaining)
\* An interval with overflows and a remainder re-armed at least twice.
C11_Witness ==
    /\ armed.mode = UTIMERLIB_TYPE_INTERVAL /\ armed.d > 0 /\ fired >= 2
    /\ __overflows > 0 /\ __remaining > 0 /\ last = "fire"

\* C12: the handler run that invokes the callback of a timeout has set the
\* mode to Off and disabled delivery when the callback is entered.
C12_TimeoutOffBeforeCallback ==
    [][Tick /\ _type = UTIMERLIB_TYPE_TIMEOUT /\ isr' > isr =>
         /\ cbpc' = "entered"
         /\ _type' = UTIMERLIB_TYPE_OFF
         /\ ~irq']_vars
\* The callback of a timeout has just been entered.
C12_Witness ==
    /\ last = "fire" /\ cbpc = "entered" /\ _type = UTIMERLIB_TYPE_OFF
    /\ armed.mode = UTIMERLIB_TYPE_TIMEOUT /\ who = armed.cb

\* C13: the handler run that invokes the callback of an interval has, when
\* the callback is entered, restored the countdown from the saved
\* decomposition (with no saved overflow: loaded the saved remainder into
\* the timer and cleared the remainder; the STM32 timer reloads its period
\* by itself), left delivery enabled and the mode at Interval.
C13_IntervalRearmedBeforeCallback ==
    [][Tick /\ _type = UTIMERLIB_TYPE_INTERVAL /\ isr' > isr =>
         /\ cbpc' = "entered"
         /\ _type' = UTIMERLIB_TYPE_INTERVAL
         /\ irq'
         /\ _overflows' = __overflows
         /\ IF __overflows = 0
            THEN /\ _remaining' = 0
                 /\ counter' = IF hw = "STM32" THEN counter
                               ELSE Limbs(__remaining)
            ELSE _remaining' = __remaining]_vars
\* The callback of an interval of several overflows and a remainder has
\* just been entered.
C13_Witness ==
    /\ last = "fire" /\ cbpc = "entered"
    /\ _type = UTIMERLIB_TYPE_INTERVAL
    /\ _overflows > 0 /\ _remaining > 0

\* C14: a handler run that finds, after the decrement, no overflow left and
\* a remainder > 0 loads the remainder into the timer, clears it, enters
\* no callback and keeps the mode; the handler run that follows it enters
\* the callback.
OverflowsAfterDecrement == IF _overflows > 0 THEN _overflows - 1 ELSE 0
C14_RemainderLoadTick ==
    /\ [][Tick /\ _type # UTIMERLIB_TYPE_OFF /\ hw # "STM32"
             /\ OverflowsAfterDecrement = 0 /\ _remaining > 0 =>
            /\ counter' = Limbs(_remaining)
            /\ _remaining' = 0
            /\ _overflows' = 0
            /\ UNCHANGED <<_type, _cb, isr, cbpc, fired, who>>]_vars
    /\ [](last = "load" /\ pc \in {"idle", "clr_type"} =>
            irq /\ gie /\ _interrupt(St).kind = "fire")
\* The remainder of a delay of several overflows has just been loaded.
C14_Witness ==
    /\ last = "load" /\ __overflows > 0 /\ counter = Limbs(__remaining)
    /\ _remaining = 0 /\ _type # UTIMERLIB_TYPE_OFF

\* C15: a set*_us call whose computed overflow count is 0 returns with the
\* remainder loaded into the timer and cleared, so that the first handler
\* run after it invokes the callback (AVR, SAM and uTimerLib.cpp builds).
C15_ShortDelayArmedAtOnce ==
    JustArmed /\ armed.unit = "us" /\ __overflows = 0 /\ hw # "STM32" =>
        /\ _remaining = 0
        /\ counter = Limbs(__remaining)
        /\ _interrupt(St).kind = "fire"

\* C16: a set* call returns with one overflow more than computed to count
\* when the computed overflow count is > 0, and with none to count when it
\* is 0.
C16_ExtraOverflowOnlyAboveZero ==
    JustArmed /\ hw = "AVR" =>
        _overflows = __overflows + (IF __overflows > 0 THEN 1 ELSE 0)

\* The microsecond path of hardware/uTimerLib.AVR.cpp at 16 MHz, armed.
AvrUsArmed ==
    JustArmed /\ hw = "AVR" /\ F_CPU = 16000000 /\ armed.unit = "us"
\* Timer ticks the saved decomposition stands for: full periods of 256
\* ticks, then 256 - remainder ticks unless the remainder is 0.
SavedTicks ==
    __overflows * 256 + (IF __remaining = 0 THEN 0 ELSE 256 - __remaining)
Abs(x) == IF x < 0 THEN -x ELSE x

\* C17: a delay that is an exact multiple of 16384 us is armed with
\* remainder 0, so that no remainder-load tick precedes the callback.
C17_ExactMultipleNoRemainder ==
    AvrUsArmed /\ armed.d % 16384 = 0 =>
        __remaining = 0 /\ _remaining = 0

\* C18: the saved decomposition stands for a tick count within one tick of
\* the delay expressed in ticks of the selected prescaler (a tick is
\* prescaler / 16 us).
C18_DecompositionWithinOneTick ==
    AvrUsArmed =>
        Abs(SavedTicks * prescaler - 16 * armed.d) <= prescaler

\* C19: a delay below 16384 us is armed with no overflow and with a
\* remainder standing for the delay in ticks rounded to the nearest tick,
\* halves up.
C19_ShortDelayRounded ==
    AvrUsArmed /\ armed.d < 16384 =>
        /\ __overflows = 0
        /\ 256 - __remaining = (32 * armed.d + prescaler) \div (2 * prescaler)

\* C20: the overflow count armed for s seconds is floor(s * 1000000 /
\* 16384) over the unbounded integers (1000000 / 16384 = 15625 / 256).
C20_SecondsNeverWrap ==
    JustArmed /\ hw = "AVR" /\ F_CPU = 16000000 /\ armed.unit = "s" =>
        __overflows = (armed.d * 15625) \div 256

\* C21: on the AVR build a set*_s call arms the countdown, remainder and
\* saved decomposition that the same call arms on a fresh object, whatever
\* countdown the previous schedule left in _overflows; the leftover never
\* exceeds the 500000 the seconds path compares it with.
C21_SecondsIgnoreLeftover ==
    /\ (hw = "AVR" /\ JustArmed /\ armed.unit = "s" /\ armed.over # "off" =>
           /\ _overflows = Ref._overflows
           /\ _remaining = Ref._remaining
           /\ __overflows = Ref.__overflows
           /\ __remaining = Ref.__remaining)
    /\ (hw = "AVR" => _overflows <= 500000)
\* A second set*_s call has replaced a schedule on the AVR build.
C21_Witness ==
    /\ hw = "AVR" /\ F_CPU = 16000000 /\ last = "arm"
    /\ armed.over = "start" /\ armed.unit = "s" /\ __overflows > 0

\* C22: the handler is not entered while an activation of it is executing:
\* no tick is handled between the entry of a callback and the return of
\* its handler, and no second callback is entered inside the first.
C22_HandlerNotReentered ==
    /\ isr <= 1
    /\ (isr = 1 => last \notin {"count", "load", "off"})

\* C23: on the AVR builds every public operation returns with the global
\* interrupt flag set as it found it: the flag is set after construction,
\* so it is set whenever the sketch is between two operations and no
\* handler is active.
C23_SuppressionScoped ==
    AvrLike(hw) /\ pc = "idle" /\ isr = 0 => gie

\* C24: on SAM a handler run that leaves overflows to count writes the
\* full-period reload to RC, enters no callback and changes neither the
\* remainder nor the mode, the callback or the saved decomposition.
C24_SamFullPeriodReload ==
    [][Tick /\ hw = "SAM" /\ _type # UTIMERLIB_TYPE_OFF /\ _overflows > 1 =>
         /\ counter' = RC_FULL
         /\ _overflows' = _overflows - 1
         /\ UNCHANGED <<_type, _cb, _remaining, __overflows, __remaining,
                        isr, cbpc, fired, who>>]_vars
\* The handler has just counted the first of two full periods on SAM.
C24_Witness ==
    /\ hw = "SAM" /\ last = "count" /\ counter = RC_FULL
    /\ _overflows = 1 /\ __overflows = 2 /\ _remaining = __remaining
    /\ _remaining > 0

\* C25: on the builds without the compensating overflow (uTimerLib.cpp
\* for AVR, SAM) the first callback after a set* call with saved
\* decomposition (k, r) is entered by handler run number 1 when k = 0,
\* k when k > 0 and r = 0, k + 1 when k > 0 and r > 0.
C25_FirstCallbackTick ==
    /\ hw \in {"CORE", "SAM"} /\ armed.op = "set" /\ armed.d > 0
    /\ cleared = 0 /\ fired = 1
    => lastGap = Period(__overflows, __remaining)

\* C26: on the AVR build the first callback of an interval is entered one
\* handler run later than the period between later callbacks: run number
\* Period + 1 after arming, every Period runs from then on.
C26_FirstPeriodOneLonger ==
    /\ hw = "AVR" /\ armed.op = "set" /\ armed.d > 0 /\ cleared = 0
    /\ armed.mode = UTIMERLIB_TYPE_INTERVAL
    => /\ (fired = 1 => lastGap = Period(__overflows, __remaining) + 1)
       /\ (fired >= 2 => lastGap = Period(__overflows, __remaining))

\* C27: whenever no public operation and no handler is in progress, a mode
\* other than Off comes with the timer's event delivery enabled.
C27_ArmedImpliesDelivery ==
    pc = "idle" /\ isr = 0 /\ _type # UTIMERLIB_TYPE_OFF => irq

\* C28: a handler run that enters a callback enters the one stored by the
\* latest completed set* call, which had D > 0 and has not been followed
\* by a completed clearTimer(): never NULL, never the callback of a
\* schedule that was replaced or cancelled.
C28_LatestCallbackInvoked ==
    [][Tick /\ isr' > isr =>
         /\ who' = armed.cb
         /\ who' \in Callbacks
         /\ armed.op = "set" /\ armed.d > 0 /\ cleared = 0]_vars
\* The callback of a schedule set over one that was counting down has been
\* entered.
C28_Witness ==
    /\ last = "fire" /\ cbpc = "entered" /\ who = armed.cb
    /\ armed.over = "mid" /\ armed.from = "normal"

\* C29: in every state of the STM32 build with a schedule installed (its
\* remainder is 0), the STM32 handler and the generic handler do the same:
\* both count or both enter the callback, and they leave the same mode
\* and, while the mode is not Off, the same countdown; so they enter the
\* callback on the same tick events, run after run.
C29_Stm32HandlerAsGeneric ==
    hw = "STM32" /\ _type # UTIMERLIB_TYPE_OFF =>
        /\ _remaining = 0 /\ __remaining = 0
        /\ Stm32Elapse(St).kind = GenericElapse(St).kind
        /\ Stm32Elapse(St).st._type = GenericElapse(St).st._type
        /\ (Stm32Elapse(St).st._type # UTIMERLIB_TYPE_OFF =>
              /\ Stm32Elapse(St).st._overflows = GenericElapse(St).st._overflows
              /\ Stm32Elapse(St).st._remaining = GenericElapse(St).st._remaining
              /\ Stm32Elapse(St).st.irq = GenericElapse(St).st.irq)
\* An interval of three seconds on STM32 is counting its second period.
C29_Witness ==
    /\ hw = "STM32" /\ _type = UTIMERLIB_TYPE_INTERVAL /\ fired >= 1
    /\ __overflows = 3 /\ _overflows = 1 /\ irq

\* C30: a delay below 16384 us is armed, under the Timer2 table and under
\* the Timer3 table of the ATmega32U4, with no overflow and with a
\* remainder that did not wrap: the 256 - remainder ticks it stands for
\* are between 1 and 256 and are the whole ticks of the delay, or one more.
C30_RemainderNeverWraps ==
    /\ JustArmed /\ hw \in {"AVR", "AVR32U4"} /\ F_CPU = 16000000
    /\ armed.unit = "us" /\ armed.d < 16384
    => /\ __overflows = 0
       /\ 256 - __remaining \in 1..256
       /\ 256 - __remaining - (16 * armed.d) \div prescaler \in {0, 1}

\* C31: the rescaling of a duration >= 1 by the CPU frequency of an AVR
\* build (16 MHz and below) gives a duration >= 1 to decompose.
C31_RescaledNeverZero ==
    JustArmed /\ AvrLike(hw) /\ armed.d >= 1 =>
        ScaleFCpu(F_CPU, armed.d) >= 1

\* C32: the countdown is never below 0 (the handler does not decrement it
\* at 0) and never above the saved overflow count of the schedule, plus
\* the compensating one on the builds of hardware/uTimerLib.AVR.cpp.
C32_CountdownBounded ==
    /\ _overflows >= 0
    /\ _overflows <=
          __overflows + (IF hw \in {"AVR", "AVR32U4"} THEN 1 ELSE 0)
\* The callback of an interval with no full overflow has been entered a
\* second time: the handler ran with the countdown at 0.
C32_Witness ==
    /\ last = "fire" /\ fired >= 2 /\ _type = UTIMERLIB_TYPE_INTERVAL
    /\ __overflows = 0 /\ _overflows = 0 /\ hw = "CORE"

====
